---- MODULE Spec2Model ----
(***************************************************************************)
(* Model of the manufacturing dashboard lambdas:                           *)
(*   src/lambda/lambda_predict_store.py  POST = ingest, GET = query        *)
(*   src/lambda_sns_only.py              combined score-and-alert handler  *)
(*   src/simulation.py                   its copy of predict               *)
(* Concurrent Lambda invocations are request slots; every S3 / SNS / clock *)
(* access of a handler is one atomic step, the code between two accesses   *)
(* belongs to the step that follows the first one.                         *)
(*                                                                         *)
(* Numbers: a Python float f is the integer 100*f (hundredths); a          *)
(* confidence is the integer 10000*c until round(c, 2) makes it hundredths *)
(***************************************************************************)
EXTENDS Integers, Naturals, Sequences, FiniteSets, TLC

(***************************************************************************)
(* Bounds of the model                                                     *)
(***************************************************************************)
\* concurrent invocations
MaxSlots == 2
\* the clock reads 0..MaxClock
MaxClock == 1
\* invocations in one run
MaxRequests == 5

Slots == 1..MaxSlots

(***************************************************************************)
(* Program constants                                                       *)
(***************************************************************************)
TEMP_CRITICAL == 8200
VIB_CRITICAL == 300
TEMP_WARN == 7400
VIB_WARN == 230

DefaultMachine == "M-202"
UnknownMachine == "UNKNOWN"
Machines == {"M-202", "M-303"}

(***************************************************************************)
(* Fixed-point arithmetic standing for Python floats                       *)
(***************************************************************************)
\* confidences are computed in units of 1/Scale
Scale == 100 * 100

\* float('nan'): below every number, so that every >= against it is false
NaN == 0 - Scale * Scale

Max(a, b) == IF a >= b THEN a ELSE b
Min(a, b) == IF a <= b THEN a ELSE b

RECURSIVE ExpSeries(_, _, _, _)
\* alternating Taylor series of e^(-f/Scale), 0 <= f < Scale
ExpSeries(f, k, term, acc) ==
  IF k > 9 THEN acc
  ELSE LET t == (term * f) \div (k * Scale)
       IN ExpSeries(f, k + 1, t, IF k % 2 = 1 THEN acc - t ELSE acc + t)

RECURSIVE ExpPow(_, _)
\* x * e^(-n), with e^-1 = 0.3679
ExpPow(x, n) == IF n = 0 THEN x ELSE ExpPow((x * 3679) \div Scale, n - 1)

\* math.exp(-y/Scale) * Scale for y >= 0 (error below 3/Scale)
ExpNeg(y) ==
  IF y >= 12 * Scale THEN 0
  ELSE ExpPow(ExpSeries(y % Scale, 1, Scale, Scale), y \div Scale)

\* sigmoid(x) = 1 / (1 + exp(-max(-500, min(500, x)))); min(500, nan) is 500
sigmoid(x) ==
  LET c == IF x = NaN THEN 500 * Scale ELSE Max(-500 * Scale, Min(500 * Scale, x))
  IN IF c >= 0 THEN (Scale * Scale) \div (Scale + ExpNeg(c))
     ELSE (Scale * ExpNeg(-c)) \div (Scale + ExpNeg(-c))

\* z of predict, at Scale, for temp and vib in hundredths; nan gives nan
ZScore(temp, vib) ==
  LET a == temp - 6000
      b == vib - 100
  IN IF temp = NaN \/ vib = NaN THEN NaN
     ELSE (7500 * a + 90000 * b + 8 * a * b - 10800000) \div 900

\* mutant: the thresholds are exclusive
predictStrict(temp, vib) ==
  LET confidence == sigmoid(ZScore(temp, vib))
  IN IF temp > TEMP_CRITICAL \/ vib > VIB_CRITICAL
       THEN [prediction |-> "FAULT_SOON", confidence |-> Max(confidence, 8500)]
     ELSE IF temp > TEMP_WARN \/ vib > VIB_WARN
       THEN [prediction |-> "WARNING", confidence |-> Max(confidence, 4500)]
     ELSE [prediction |-> "NORMAL", confidence |-> Min(confidence, 3000)]

\* mutant: the sigmoid is returned as it is, without the floor or ceiling of
\* the tier
predictUnclamped(temp, vib) ==
  LET confidence == sigmoid(ZScore(temp, vib))
  IN IF temp >= TEMP_CRITICAL \/ vib >= VIB_CRITICAL
       THEN [prediction |-> "FAULT_SOON", confidence |-> confidence]
     ELSE IF temp >= TEMP_WARN \/ vib >= VIB_WARN
       THEN [prediction |-> "WARNING", confidence |-> confidence]
     ELSE [prediction |-> "NORMAL", confidence |-> confidence]

\* predict(temp, vib) of lambda_predict_store.py
predict(temp, vib) ==
  LET confidence == sigmoid(ZScore(temp, vib))
  IN IF temp >= TEMP_CRITICAL \/ vib >= VIB_CRITICAL
       THEN [prediction |-> "FAULT_SOON", confidence |-> Max(confidence, 8500)]
     ELSE IF temp >= TEMP_WARN \/ vib >= VIB_WARN
       THEN [prediction |-> "WARNING", confidence |-> Max(confidence, 4500)]
     ELSE [prediction |-> "NORMAL", confidence |-> Min(confidence, 3000)]

\* round(confidence, 2): from 1/Scale units to hundredths
Round2(c) == (c + 50) \div 100

(***************************************************************************)
(* JSON                                                                    *)
(***************************************************************************)
NumberKeys == {"temperature", "vibration", "confidence"}

\* the text json.dumps writes for a float: decimal digits, or NaN
FloatRepr(x) ==
  IF x = NaN THEN [kind |-> "nan", whole |-> 0, frac |-> 0]
  ELSE [kind |-> "number", whole |-> x \div 100, frac |-> x % 100]

\* float(json value): the number, nan for NaN, or ValueError for text that is
\* no number
IsNumber(j) == j.kind \in {"number", "nan"}
ParseFloat(j) == IF j.kind = "nan" THEN NaN ELSE j.whole * 100 + j.frac

JsonDumps(d) ==
  [k \in DOMAIN d |-> IF k \in NumberKeys THEN FloatRepr(d[k]) ELSE d[k]]

JsonLoads(body) ==
  [k \in DOMAIN body |-> IF k \in NumberKeys THEN ParseFloat(body[k]) ELSE body[k]]

\* predict(temp, vib) of lambda_sns_only.py
sns_predict(temp, vib) ==
  LET confidence == sigmoid(ZScore(temp, vib))
  IN IF temp >= TEMP_CRITICAL \/ vib >= VIB_CRITICAL
       THEN [prediction |-> "FAULT_SOON", confidence |-> Max(confidence, 8500)]
     ELSE IF temp >= TEMP_WARN \/ vib >= VIB_WARN
       THEN [prediction |-> "WARNING", confidence |-> Max(confidence, 4500)]
     ELSE [prediction |-> "NORMAL", confidence |-> Min(confidence, 3000)]

\* predict(temp, vib) of simulation.py
sim_predict(temp, vib) ==
  LET confidence == sigmoid(ZScore(temp, vib))
  IN IF temp >= TEMP_CRITICAL \/ vib >= VIB_CRITICAL
       THEN [prediction |-> "FAULT_SOON", confidence |-> Max(confidence, 8500)]
     ELSE IF temp >= TEMP_WARN \/ vib >= VIB_WARN
       THEN [prediction |-> "WARNING", confidence |-> Max(confidence, 4500)]
     ELSE [prediction |-> "NORMAL", confidence |-> Min(confidence, 3000)]

(***************************************************************************)
(* Inputs                                                                  *)
(***************************************************************************)
\* temperatures and vibrations given to the three predict functions: far
\* from, just below, at and just above each threshold, and nan
TempGrid == {NaN, 0, 6000, 7000, 7399, 7400, 7401, 8199, 8200, 8201, 9500}
VibGrid == {NaN, 0, 100, 229, 230, 231, 299, 300, 301, 450}

\* (temperature, vibration) in hundredths: NORMAL, WARNING, FAULT_SOON
Readings == { <<6500, 140>>, <<7600, 250>>, <<8400, 310>> }

PostBody(m, r) ==
  [machine_id |-> m, temperature |-> FloatRepr(r[1]), vibration |-> FloatRepr(r[2])]

\* the default machine sends a NORMAL and a FAULT_SOON reading, the other
\* machine a WARNING reading
ValidBodies ==
  { PostBody("M-202", <<6500, 140>>), PostBody("M-202", <<8400, 310>>),
    PostBody("M-303", <<7600, 250>>) }

\* a body without temperature (KeyError) and one whose temperature is text
\* that float() rejects (ValueError)
InvalidBodies ==
  { [machine_id |-> DefaultMachine, vibration |-> FloatRepr(140)],
    [machine_id |-> DefaultMachine,
     temperature |-> [kind |-> "text", whole |-> 0, frac |-> 0],
     vibration |-> FloatRepr(140)] }

Bodies == ValidBodies \cup InvalidBodies

\* bodies of the wrong shape: an empty machine_id, a temperature NaN, no
\* field at all (an absent body reads as '{}'), text that is no JSON
EmptyMachine == ""
ShapeBodies ==
  { PostBody(EmptyMachine, <<6500, 140>>),
    [machine_id |-> DefaultMachine,
     temperature |-> [kind |-> "nan", whole |-> 0, frac |-> 0],
     vibration |-> FloatRepr(140)],
    << >>,
    [raw |-> "{"] }

\* every machine_id a request can carry
MachineIds == Machines \cup {EmptyMachine}

\* queryStringParameters: absent, or carrying a machine_id
NoParams == "-"
QueryParams == {NoParams, "M-303"}

BodyOk(body) ==
  /\ {"machine_id", "temperature", "vibration"} \subseteq DOMAIN body
  /\ IsNumber(body.temperature)
  /\ IsNumber(body.vibration)

(***************************************************************************)
(* State                                                                   *)
(***************************************************************************)
VARIABLES
  clock,      \* datetime.utcnow()
  bucket,     \* the S3 bucket: key -> object body
  topic,      \* number of messages the SNS topic accepted
  pc,         \* per invocation: where the handler is
  handler,    \* per invocation: "POST", "GET", "SNS" (lambda_sns_only), "OTHER"
  frame,      \* per invocation: machine_id, temperature, vibration, prediction, confidence
  data,       \* per invocation: the data dict
  response,   \* per invocation: statusCode and body
  started,    \* number of invocations so far
  obs,        \* per invocation: what the invocation did so far (observer)
  log         \* observer of the whole run

vars == <<clock, bucket, topic, pc, handler, frame, data, response, started, obs, log>>

LatestKey(machine_id) == <<"latest", machine_id>>
DataKey(machine_id, timestamp) == <<"data", machine_id, timestamp>>

NoData == [machine_id |-> ""]
NoReading == [machine_id |-> "", temperature |-> 0, vibration |-> 0, timestamp |-> 0 - 1]
NoResult == [prediction |-> "", confidence |-> 0]
NoFrame == [machine_id |-> "", temperature |-> 0, vibration |-> 0,
            prediction |-> "", confidence |-> 0]
NoResponse == [statusCode |-> 0, body |-> [error |-> ""]]
NoObs == [puts |-> 0, publishes |-> 0, appendFailed |-> FALSE, putFailed |-> FALSE,
          publishFailed |-> FALSE, absent |-> FALSE, readFailed |-> FALSE,
          expect |-> NoReading, prev |-> NoResult, overtaken |-> NoReading]

\* the Reading a data dict carries
ReadingOf(d) ==
  [machine_id |-> d.machine_id, temperature |-> d.temperature,
   vibration |-> d.vibration, timestamp |-> d.timestamp]

Init ==
  /\ clock = 0
  /\ bucket = << >>
  /\ topic = 0
  /\ pc = [i \in Slots |-> "idle"]
  /\ handler = [i \in Slots |-> ""]
  /\ frame = [i \in Slots |-> NoFrame]
  /\ data = [i \in Slots |-> NoData]
  /\ response = [i \in Slots |-> NoResponse]
  /\ started = 0
  /\ obs = [i \in Slots |-> NoObs]
  /\ log = [readings |-> {},
            lastCommit |-> [m \in MachineIds |-> NoReading],
            lastResult |-> [m \in MachineIds |-> NoResult],
            newest |-> [m \in MachineIds |-> 0 - 1],
            alerterCalls |-> 0,
            faultQueries |-> 0]


(***************************************************************************)
(* Helpers of the steps                                                    *)
(***************************************************************************)
\* mutant: an existing object is updated field by field and keeps its timestamp
PutObjectKeepsTimestamp(b, key, body) ==
  [k \in DOMAIN b \cup {key} |->
     IF k # key THEN b[k]
     ELSE IF key \in DOMAIN b /\ "timestamp" \in DOMAIN b[key]
       THEN [f \in DOMAIN body |-> IF f = "timestamp" THEN b[key].timestamp ELSE body[f]]
     ELSE body]

\* s3.put_object(Key=key, Body=body): a plain overwrite of the whole object
PutObject(b, key, body) ==
  [k \in DOMAIN b \cup {key} |-> IF k = key THEN body ELSE b[k]]

CorsHeaders(status, body) == [statusCode |-> status, body |-> body]

\* an invocation starts in the first free slot
Begin(i, h) ==
  /\ pc[i] = "idle"
  /\ \A j \in Slots : j < i => pc[j] # "idle"
  /\ started < MaxRequests
  /\ started' = started + 1
  /\ handler' = [handler EXCEPT ![i] = h]

Return(i, status, body) ==
  /\ pc' = [pc EXCEPT ![i] = "done"]
  /\ response' = [response EXCEPT ![i] = CorsHeaders(status, body)]

(***************************************************************************)
(* lambda_predict_store.lambda_handler, POST: ingest                       *)
(***************************************************************************)
\* lines 92-97 parse the body; store_to_s3 lines 37-44 read the clock and
\* build the data dict
Post(i, body) ==
  /\ Begin(i, "POST")
  /\ BodyOk(body)
  /\ LET d == [machine_id |-> body.machine_id,
               temperature |-> ParseFloat(body.temperature),
               vibration |-> ParseFloat(body.vibration),
               prediction |-> "PENDING",
               timestamp |-> clock]
     IN /\ frame' = [frame EXCEPT ![i] =
               [NoFrame EXCEPT !.machine_id = d.machine_id,
                               !.temperature = d.temperature,
                               !.vibration = d.vibration]]
        /\ data' = [data EXCEPT ![i] = d]
        /\ log' = [log EXCEPT !.readings = @ \cup {ReadingOf(d)}]
  /\ pc' = [pc EXCEPT ![i] = "put_data"]
  /\ UNCHANGED <<clock, bucket, topic, response, obs>>

\* lines 98-103: KeyError / ValueError give 400
PostInvalid(i, body) ==
  /\ Begin(i, "POST")
  /\ ~BodyOk(body)
  /\ Return(i, 400, [error |-> "Invalid input"])
  /\ UNCHANGED <<clock, bucket, topic, frame, data, obs, log>>

\* store_to_s3 lines 46-53: the object data/<machine_id>/<timestamp>.json
PutData(i) ==
  /\ pc[i] = "put_data"
  /\ bucket' = PutObject(bucket, DataKey(data[i].machine_id, data[i].timestamp),
                         JsonDumps(data[i]))
  /\ obs' = [obs EXCEPT ![i].puts = @ + 1]
  /\ pc' = [pc EXCEPT ![i] = "put_latest"]
  /\ UNCHANGED <<started, clock, topic, handler, frame, data, response, log>>

\* the same put_object raising: store_to_s3 is left, lines 122-130 answer 500
PutDataFail(i) ==
  /\ pc[i] = "put_data"
  /\ obs' = [obs EXCEPT ![i].appendFailed = TRUE]
  /\ Return(i, 500, [error |-> "Storage error"])
  /\ UNCHANGED <<started, clock, bucket, topic, handler, frame, data, log>>

\* store_to_s3 lines 55-64 and the 200 of lines 109-121
PutLatest(i) ==
  /\ pc[i] = "put_latest"
  /\ LET m == data[i].machine_id
         r == ReadingOf(data[i])
     IN /\ bucket' = PutObject(bucket, LatestKey(m), JsonDumps(data[i]))
        /\ log' = [log EXCEPT !.lastCommit[m] = r,
                              !.lastResult[m] = NoResult,
                              !.newest[m] = Max(@, r.timestamp)]
        /\ obs' = [j \in Slots |->
                     IF j = i THEN [obs[i] EXCEPT !.puts = @ + 1]
                     ELSE IF pc[j] = "get_update" /\ frame[j].machine_id = m
                       THEN [obs[j] EXCEPT !.overtaken = r]
                     ELSE obs[j]]
  /\ Return(i, 200, [message |-> "Data stored successfully",
                     machine_id |-> frame[i].machine_id,
                     temperature |-> frame[i].temperature,
                     vibration |-> frame[i].vibration,
                     timestamp |-> data[i].timestamp])
  /\ UNCHANGED <<started, clock, topic, handler, frame, data>>

\* mutant: the latest put raising is swallowed, as the query's write-back does
PutLatestFailSilent(i) ==
  /\ pc[i] = "put_latest"
  /\ obs' = [obs EXCEPT ![i].putFailed = TRUE]
  /\ Return(i, 200, [message |-> "Data stored successfully",
                     machine_id |-> frame[i].machine_id,
                     temperature |-> frame[i].temperature,
                     vibration |-> frame[i].vibration,
                     timestamp |-> data[i].timestamp])
  /\ UNCHANGED <<started, clock, bucket, topic, handler, frame, data, log>>

\* the latest put raising: lines 122-130 answer 500
PutLatestFail(i) ==
  /\ pc[i] = "put_latest"
  /\ obs' = [obs EXCEPT ![i].putFailed = TRUE]
  /\ Return(i, 500, [error |-> "Storage error"])
  /\ UNCHANGED <<started, clock, bucket, topic, handler, frame, data, log>>

(***************************************************************************)
(* lambda_predict_store.lambda_handler, GET: query                         *)
(***************************************************************************)
\* lines 134-136: machine_id of the query string, 'M-202' without one
QueryMachine(params) == IF params = NoParams THEN DefaultMachine ELSE params

\* mutant: the alertable set of lambda_sns_only used in the GET handler
AlertableWarningToo(prediction) == prediction \in {"WARNING", "FAULT_SOON"}

\* the alertable set of the GET handler, line 170
Alertable(prediction) == prediction = "FAULT_SOON"

\* get_latest_from_s3 finds the object; lines 149-153 score it
Get(i, params) ==
  /\ Begin(i, "GET")
  /\ LatestKey(QueryMachine(params)) \in DOMAIN bucket
  /\ LET m == QueryMachine(params)
         d == JsonLoads(bucket[LatestKey(m)])
         p == predict(d.temperature, d.vibration)
     IN /\ data' = [data EXCEPT ![i] = d]
        /\ frame' = [frame EXCEPT ![i] =
               [machine_id |-> m,
                temperature |-> d.temperature,
                vibration |-> d.vibration,
                prediction |-> p.prediction,
                confidence |-> p.confidence]]
        /\ obs' = [obs EXCEPT ![i].expect = log.lastCommit[m],
                              ![i].prev = log.lastResult[m]]
        /\ log' = [log EXCEPT
               !.faultQueries = IF p.prediction = "FAULT_SOON" THEN @ + 1 ELSE @]
  /\ pc' = [pc EXCEPT ![i] = "get_update"]
  /\ UNCHANGED <<clock, bucket, topic, response>>

\* mutant: a missing object is created as an empty PENDING record
GetAbsentCreates(i, params) ==
  /\ Begin(i, "GET")
  /\ LatestKey(QueryMachine(params)) \notin DOMAIN bucket
  /\ frame' = [frame EXCEPT ![i] = [NoFrame EXCEPT !.machine_id = QueryMachine(params)]]
  /\ bucket' = PutObject(bucket, LatestKey(QueryMachine(params)),
                         [machine_id |-> QueryMachine(params), prediction |-> "PENDING"])
  /\ obs' = [obs EXCEPT ![i].absent = TRUE]
  /\ Return(i, 404, [error |-> "No data found for machine"])
  /\ UNCHANGED <<clock, topic, data, log>>

\* get_latest_from_s3 lines 73-74: NoSuchKey gives None, lines 142-147 answer 404
GetAbsent(i, params) ==
  /\ Begin(i, "GET")
  /\ LatestKey(QueryMachine(params)) \notin DOMAIN bucket
  /\ frame' = [frame EXCEPT ![i] = [NoFrame EXCEPT !.machine_id = QueryMachine(params)]]
  /\ obs' = [obs EXCEPT ![i].absent = TRUE]
  /\ Return(i, 404, [error |-> "No data found for machine"])
  /\ UNCHANGED <<clock, bucket, topic, data, log>>

\* get_latest_from_s3 lines 75-77: any other exception gives None too
GetError(i, params) ==
  /\ Begin(i, "GET")
  /\ frame' = [frame EXCEPT ![i] = [NoFrame EXCEPT !.machine_id = QueryMachine(params)]]
  /\ obs' = [obs EXCEPT ![i].readFailed = TRUE]
  /\ Return(i, 404, [error |-> "No data found for machine"])
  /\ UNCHANGED <<clock, bucket, topic, data, log>>

\* mutant: the write-back stores the record as it was read, the prediction
\* still PENDING
ResolvedAsRead(i) == data[i]

\* lines 157-158: the data dict with the prediction resolved
Resolved(i) ==
  [k \in DOMAIN data[i] \cup {"prediction", "confidence"} |->
     IF k = "prediction" THEN frame[i].prediction
     ELSE IF k = "confidence" THEN Round2(frame[i].confidence)
     ELSE data[i][k]]

\* lines 191-206
QueryBody(i) ==
  [machine_id |-> frame[i].machine_id,
   temperature |-> frame[i].temperature,
   vibration |-> frame[i].vibration,
   prediction |-> frame[i].prediction,
   confidence |-> Round2(frame[i].confidence),
   timestamp |-> data[i].timestamp]

\* observer: the result of the last query of a machine that ran with no
\* ingest committed since it read
Answered(i, l) ==
  LET m == frame[i].machine_id
  IN IF obs[i].expect = l.lastCommit[m]
       THEN [l EXCEPT !.lastResult[m] =
               [prediction |-> frame[i].prediction,
                confidence |-> Round2(frame[i].confidence)]]
       ELSE l

\* after the write-back: line 170 decides between publishing and returning
AfterUpdate(i) ==
  IF Alertable(frame[i].prediction)
    THEN /\ pc' = [pc EXCEPT ![i] = "get_publish"]
         /\ UNCHANGED <<response, log>>
    ELSE /\ Return(i, 200, QueryBody(i))
         /\ log' = Answered(i, log)

\* lines 155-165: write the resolved record back to latest/<machine_id>.json
UpdateLatest(i) ==
  /\ pc[i] = "get_update"
  /\ data' = [data EXCEPT ![i] = Resolved(i)]
  /\ bucket' = PutObject(bucket, LatestKey(frame[i].machine_id), JsonDumps(Resolved(i)))
  /\ obs' = [obs EXCEPT ![i].puts = @ + 1]
  /\ AfterUpdate(i)
  /\ UNCHANGED <<started, clock, topic, handler, frame>>

\* mutant: the put raising escapes to the handler's outer except (500)
UpdateLatestFailFatal(i) ==
  /\ pc[i] = "get_update"
  /\ data' = [data EXCEPT ![i] = Resolved(i)]
  /\ obs' = [obs EXCEPT ![i].putFailed = TRUE]
  /\ Return(i, 500, [error |-> "Storage error"])
  /\ UNCHANGED <<started, clock, bucket, topic, handler, frame, log>>

\* lines 166-167: the put raising is printed and swallowed
UpdateLatestFail(i) ==
  /\ pc[i] = "get_update"
  /\ data' = [data EXCEPT ![i] = Resolved(i)]
  /\ obs' = [obs EXCEPT ![i].putFailed = TRUE]
  /\ AfterUpdate(i)
  /\ UNCHANGED <<started, clock, bucket, topic, handler, frame>>

\* lines 171-187 and the 200 of lines 191-206
Publish(i) ==
  /\ pc[i] = "get_publish"
  /\ topic' = topic + 1
  /\ obs' = [obs EXCEPT ![i].publishes = @ + 1]
  /\ log' = Answered(i, [log EXCEPT !.alerterCalls = @ + 1])
  /\ Return(i, 200, QueryBody(i))
  /\ UNCHANGED <<started, clock, bucket, handler, frame, data>>

\* lines 188-189: sns.publish raising is printed and swallowed
PublishFail(i) ==
  /\ pc[i] = "get_publish"
  /\ obs' = [obs EXCEPT ![i].publishes = @ + 1, ![i].publishFailed = TRUE]
  /\ log' = Answered(i, [log EXCEPT !.alerterCalls = @ + 1])
  /\ Return(i, 200, QueryBody(i))
  /\ UNCHANGED <<started, clock, bucket, topic, handler, frame, data>>

\* lines 218-224: any other httpMethod
Other(i) ==
  /\ Begin(i, "OTHER")
  /\ Return(i, 405, [error |-> "Method not allowed"])
  /\ UNCHANGED <<clock, bucket, topic, frame, data, obs, log>>

(***************************************************************************)
(* lambda_sns_only.lambda_handler: score and alert in one request          *)
(***************************************************************************)
\* the bodies of the ingest, one without machine_id, and the bodies of the
\* wrong shape
SnsBodies == Bodies \cup ShapeBodies \cup
  { [temperature |-> FloatRepr(7600), vibration |-> FloatRepr(250)] }

SnsBodyOk(body) ==
  /\ {"temperature", "vibration"} \subseteq DOMAIN body
  /\ IsNumber(body.temperature)
  /\ IsNumber(body.vibration)

\* the alertable set of lambda_sns_only, line 91
SnsAlertable(prediction) == prediction \in {"WARNING", "FAULT_SOON"}

\* lines 97-114; message_id 0 is None
SnsBody(i, f, message_id) ==
  [machine_id |-> f.machine_id,
   temperature |-> f.temperature,
   vibration |-> f.vibration,
   prediction |-> f.prediction,
   confidence |-> Round2(f.confidence),
   alert_sent |-> message_id # 0,
   message_id |-> message_id,
   timestamp |-> clock]

\* lines 72-95: parse and predict; NORMAL returns at once, lines 97-114
Sns(i, body) ==
  /\ Begin(i, "SNS")
  /\ SnsBodyOk(body)
  /\ LET t == ParseFloat(body.temperature)
         v == ParseFloat(body.vibration)
         p == sns_predict(t, v)
         f == [machine_id |-> IF "machine_id" \in DOMAIN body
                                THEN body.machine_id ELSE UnknownMachine,
               temperature |-> t, vibration |-> v,
               prediction |-> p.prediction, confidence |-> p.confidence]
     IN /\ frame' = [frame EXCEPT ![i] = f]
        /\ IF SnsAlertable(p.prediction)
             THEN /\ pc' = [pc EXCEPT ![i] = "sns_publish"]
                  /\ UNCHANGED response
             ELSE Return(i, 200, SnsBody(i, f, 0))
  /\ UNCHANGED <<clock, bucket, topic, data, obs, log>>

\* lines 116-128: KeyError and ValueError give 400
SnsInvalid(i, body) ==
  /\ Begin(i, "SNS")
  /\ ~SnsBodyOk(body)
  /\ Return(i, 400, [error |-> "Missing required field or invalid data type"])
  /\ UNCHANGED <<clock, bucket, topic, frame, data, obs, log>>

\* send_sns_alert lines 48-55: the topic accepts the message, MessageId returned
SnsPublish(i) ==
  /\ pc[i] = "sns_publish"
  /\ topic' = topic + 1
  /\ obs' = [obs EXCEPT ![i].publishes = @ + 1]
  /\ Return(i, 200, SnsBody(i, frame[i], topic + 1))
  /\ UNCHANGED <<started, clock, bucket, handler, frame, data, log>>

\* send_sns_alert lines 57-59 re-raise; the handler's lines 130-139 answer 500
SnsPublishFail(i) ==
  /\ pc[i] = "sns_publish"
  /\ obs' = [obs EXCEPT ![i].publishes = @ + 1, ![i].publishFailed = TRUE]
  /\ Return(i, 500, [error |-> "publish failed"])
  /\ UNCHANGED <<started, clock, bucket, topic, handler, frame, data, log>>

(***************************************************************************)
(* Environment                                                             *)
(***************************************************************************)
\* the response is delivered; the slot serves the next invocation
Finish(i) ==
  /\ pc[i] = "done"
  /\ pc' = [pc EXCEPT ![i] = "idle"]
  /\ handler' = [handler EXCEPT ![i] = ""]
  /\ frame' = [frame EXCEPT ![i] = NoFrame]
  /\ data' = [data EXCEPT ![i] = NoData]
  /\ response' = [response EXCEPT ![i] = NoResponse]
  /\ obs' = [obs EXCEPT ![i] = NoObs]
  /\ UNCHANGED <<started, clock, bucket, topic, log>>

\* time passes
Tick ==
  /\ clock < MaxClock
  /\ clock' = clock + 1
  /\ UNCHANGED <<started, bucket, topic, pc, handler, frame, data, response, obs, log>>

(***************************************************************************)
(* lambda_predict_store behind the API: ingests and queries in parallel    *)
(***************************************************************************)
Next ==
  \/ \E i \in Slots, body \in Bodies : Post(i, body)
  \/ \E i \in Slots, body \in Bodies : PostInvalid(i, body)
  \/ \E i \in Slots : PutData(i)
  \/ \E i \in Slots : PutDataFail(i)
  \/ \E i \in Slots : PutLatest(i)
  \/ \E i \in Slots : PutLatestFail(i)
  \/ \E i \in Slots, params \in QueryParams : Get(i, params)
  \/ \E i \in Slots, params \in QueryParams : GetAbsent(i, params)
  \/ \E i \in Slots, params \in QueryParams : GetError(i, params)
  \/ \E i \in Slots : UpdateLatest(i)
  \/ \E i \in Slots : UpdateLatestFail(i)
  \/ \E i \in Slots : Publish(i)
  \/ \E i \in Slots : PublishFail(i)
  \/ \E i \in Slots : Other(i)
  \/ \E i \in Slots : Finish(i)
  \/ Tick

Spec == Init /\ [][Next]_vars

(***************************************************************************)
(* lambda_sns_only: its invocations in parallel                            *)
(***************************************************************************)
SnsNext ==
  \/ \E i \in Slots, body \in SnsBodies : Sns(i, body)
  \/ \E i \in Slots, body \in SnsBodies : SnsInvalid(i, body)
  \/ \E i \in Slots : SnsPublish(i)
  \/ \E i \in Slots : SnsPublishFail(i)
  \/ \E i \in Slots : Finish(i)
  \/ Tick

SnsSpec == Init /\ [][SnsNext]_vars

(***************************************************************************)
(* The ingest alone, with bodies of every shape                            *)
(***************************************************************************)
\* one body of the right shape, the rejected ones, and those of the wrong shape
IngestBodies ==
  {PostBody(DefaultMachine, <<6500, 140>>)} \cup InvalidBodies \cup ShapeBodies

IngestNext ==
  \/ \E i \in Slots, body \in IngestBodies : Post(i, body)
  \/ \E i \in Slots, body \in IngestBodies : PostInvalid(i, body)
  \/ \E i \in Slots : PutData(i)
  \/ \E i \in Slots : PutDataFail(i)
  \/ \E i \in Slots : PutLatest(i)
  \/ \E i \in Slots : PutLatestFail(i)
  \/ \E i \in Slots : Finish(i)
  \/ Tick

IngestSpec == Init /\ [][IngestNext]_vars

(***************************************************************************)
(* The three predict functions, each applied to the same reading           *)
(***************************************************************************)
ScorerInit ==
  /\ clock = 0
  /\ bucket = << >>
  /\ topic = 0
  /\ pc = [i \in Slots |-> "idle"]
  /\ handler = [i \in Slots |-> ""]
  /\ \E t \in TempGrid, v \in VibGrid :
       frame = [i \in Slots |-> [NoFrame EXCEPT !.temperature = t, !.vibration = v]]
  /\ data = [i \in Slots |-> NoData]
  /\ response = [i \in Slots |-> NoResponse]
  /\ started = 0
  /\ obs = [i \in Slots |-> NoObs]
  /\ log = [readings |-> {},
            lastCommit |-> [m \in MachineIds |-> NoReading],
            lastResult |-> [m \in MachineIds |-> NoResult],
            newest |-> [m \in MachineIds |-> 0 - 1],
            alerterCalls |-> 0,
            faultQueries |-> 0]

\* the caller keeps prediction and confidence, and the handlers store or
\* return round(confidence, 2)
ScoreWith(i, copy, p) ==
  /\ pc[i] = "idle"
  /\ pc' = [pc EXCEPT ![i] = "done"]
  /\ handler' = [handler EXCEPT ![i] = copy]
  /\ frame' = [frame EXCEPT ![i].prediction = p.prediction,
                            ![i].confidence = p.confidence]
  /\ data' = [data EXCEPT ![i] =
         [machine_id |-> "", prediction |-> p.prediction,
          confidence |-> Round2(p.confidence)]]
  /\ UNCHANGED <<clock, bucket, topic, response, started, obs, log>>

\* lambda_predict_store.py lines 153-158
ScoreStore(i) ==
  /\ handler[i] = ""
  /\ ScoreWith(i, "predict_store", predict(frame[i].temperature, frame[i].vibration))

\* lambda_sns_only.py lines 86 and 109
ScoreSns(i) ==
  /\ handler[i] = ""
  /\ ScoreWith(i, "sns_only", sns_predict(frame[i].temperature, frame[i].vibration))

\* simulation.py lines 66, 76 and 89
ScoreSimulation(i) ==
  /\ handler[i] = ""
  /\ ScoreWith(i, "simulation", sim_predict(frame[i].temperature, frame[i].vibration))

ScorerNext ==
  \/ \E i \in Slots : ScoreStore(i)
  \/ \E i \in Slots : ScoreSns(i)
  \/ \E i \in Slots : ScoreSimulation(i)

ScorerSpec == ScorerInit /\ [][ScorerNext]_vars

(***************************************************************************)
(* Properties                                                              *)
(***************************************************************************)
Done(i, h) == pc[i] = "done" /\ handler[i] = h
Status(i) == response[i].statusCode
Body(i) == response[i].body
HasLatest(m) == LatestKey(m) \in DOMAIN bucket
Latest(m) == JsonLoads(bucket[LatestKey(m)])
Scored(t, v) ==
  [prediction |-> predict(t, v).prediction, confidence |-> Round2(predict(t, v).confidence)]

\* C1: a query that answers 200 returns the temperature and vibration of the
\* ingest that last committed for its machine before the query read, with the
\* classification and rounded confidence predict gives for them; a reading
\* below both warning thresholds comes back NORMAL with confidence <= 0.30.
RoundTrip ==
  \A i \in Slots :
    Done(i, "GET") /\ Status(i) = 200 =>
      LET e == obs[i].expect
      IN /\ Body(i).temperature = e.temperature
         /\ Body(i).vibration = e.vibration
         /\ Body(i).prediction = Scored(e.temperature, e.vibration).prediction
         /\ Body(i).confidence = Scored(e.temperature, e.vibration).confidence
         /\ e.temperature < TEMP_WARN /\ e.vibration < VIB_WARN =>
              Body(i).prediction = "NORMAL" /\ Body(i).confidence <= 30

\* C2: a finished query has called sns.publish once if it resolved to
\* FAULT_SOON and not at all otherwise; the number of sns.publish calls of
\* the GET handler is the number of queries that resolved to FAULT_SOON,
\* less those still on their way to the call.
AlertGating ==
  /\ \A i \in Slots :
       Done(i, "GET") /\ Status(i) = 200 =>
         obs[i].publishes = IF Body(i).prediction = "FAULT_SOON" THEN 1 ELSE 0
  /\ \A i \in Slots :
       pc[i] = "get_update" => obs[i].publishes = 0
  /\ log.alerterCalls + Cardinality({i \in Slots :
         pc[i] \in {"get_update", "get_publish"} /\ frame[i].prediction = "FAULT_SOON"})
       = log.faultQueries

AlertGatingWitness ==
  /\ log.alerterCalls >= 1
  /\ \E i \in Slots :
       /\ Done(i, "GET") /\ Status(i) = 200
       /\ Body(i).prediction = "WARNING"
       /\ obs[i].publishes = 0

\* C3: the step of a query that finds no latest/<machine_id> object answers
\* 404 "No data found", ends the request, and changes neither the bucket
\* (latest records and history) nor the topic; such a request never calls
\* put_object or sns.publish.
MissingMachine ==
  /\ [][\A i \in Slots :
          (pc[i] = "idle" /\ handler'[i] = "GET" /\ ~HasLatest(frame'[i].machine_id)) =>
            /\ pc'[i] = "done"
            /\ response'[i].statusCode = 404
            /\ response'[i].body.error = "No data found for machine"
            /\ bucket' = bucket
            /\ topic' = topic]_vars
  /\ [](\A i \in Slots : obs[i].absent =>
          Done(i, "GET") /\ Status(i) = 404 /\ obs[i].puts = 0 /\ obs[i].publishes = 0)

MissingMachineWitness ==
  \E i \in Slots :
    /\ Done(i, "GET") /\ obs[i].absent /\ Status(i) = 404
    /\ frame[i].machine_id = "M-303"
    /\ HasLatest("M-202")

\* C4: when the write-back put of a query fails, the failing step leaves the
\* bucket as it was, the query never ends in an error, it answers 200 with
\* the prediction and rounded confidence predict gives for the reading it
\* read, and it has called sns.publish exactly when that prediction is
\* FAULT_SOON.
WriteBackFailure ==
  /\ [][\A i \in Slots :
          (pc[i] = "get_update" /\ obs'[i].putFailed) => bucket' = bucket]_vars
  /\ [](\A i \in Slots :
          handler[i] = "GET" /\ obs[i].putFailed =>
            /\ pc[i] \in {"get_publish", "done"}
            /\ pc[i] = "get_publish" => frame[i].prediction = "FAULT_SOON"
            /\ pc[i] = "done" =>
                 /\ Status(i) = 200
                 /\ Body(i).prediction = Scored(data[i].temperature, data[i].vibration).prediction
                 /\ Body(i).confidence = Scored(data[i].temperature, data[i].vibration).confidence
                 /\ obs[i].puts = 0
                 /\ obs[i].publishes = IF Body(i).prediction = "FAULT_SOON" THEN 1 ELSE 0)

WriteBackFailureWitness ==
  \E i \in Slots :
    /\ Done(i, "GET") /\ obs[i].putFailed /\ Status(i) = 200
    /\ Body(i).prediction = "FAULT_SOON"
    /\ obs[i].publishes = 1
    /\ HasLatest(frame[i].machine_id)
    /\ Latest(frame[i].machine_id).prediction = "PENDING"

\* C5: a request whose sns.publish call failed still answers 200 with the
\* prediction and confidence, and reports the alert as not sent.
AlerterFailureNotFatal ==
  \A i \in Slots :
    pc[i] = "done" /\ obs[i].publishFailed =>
      /\ Status(i) = 200
      /\ {"prediction", "confidence", "alert_sent"} \subseteq DOMAIN Body(i)
      /\ Body(i).alert_sent = FALSE

\* C6: a query that answers 200 returns the prediction and confidence of the
\* query of the same machine that answered 200 before it was called, when no
\* ingest of that machine committed since that earlier query was called.
QueryIdempotence ==
  \A i \in Slots :
    Done(i, "GET") /\ Status(i) = 200 /\ obs[i].prev # NoResult =>
      /\ Body(i).prediction = obs[i].prev.prediction
      /\ Body(i).confidence = obs[i].prev.confidence

\* C7: when no request of a machine is in flight, its latest record carries
\* the greatest timestamp among the ingests that committed for the machine.
LastWriteWins ==
  \A m \in Machines :
    (HasLatest(m) /\ \A i \in Slots : pc[i] \in {"idle", "done"} \/ frame[i].machine_id # m)
      => Latest(m).timestamp = log.newest[m]

\* C8: in every state the machine_id, temperature, vibration and timestamp of
\* a latest record are those of one single Reading built by store_to_s3.
NoTearing ==
  \A m \in Machines : HasLatest(m) => ReadingOf(Latest(m)) \in log.readings

NoTearingWitness ==
  \E i, j \in Slots :
    /\ Done(i, "POST") /\ Status(i) = 200
    /\ handler[j] = "POST" /\ pc[j] = "put_latest"
    /\ data[i].machine_id = data[j].machine_id
    /\ data[i].temperature # data[j].temperature
    /\ data[i].timestamp # data[j].timestamp

\* C9: when an ingest committed latest/<machine_id> while a query of the
\* machine was between its read and its write-back, and no other ingest has
\* committed since, then once the query is done the latest record holds the
\* reading of that ingest.
WriteBackLosesRace ==
  \A i \in Slots :
    LET m == frame[i].machine_id
    IN (Done(i, "GET") /\ obs[i].overtaken # NoReading
          /\ log.lastCommit[m] = obs[i].overtaken)
         => ReadingOf(Latest(m)) = obs[i].overtaken

\* C10: the step in which an ingest answers 200 is the step that puts its
\* record under latest/<machine_id>; an ingest whose latest put failed
\* answers 500 with an error.
IngestSuccessOnlyIfCommitted ==
  /\ [][\A i \in Slots :
          (handler[i] = "POST" /\ pc[i] # "done" /\ pc'[i] = "done"
             /\ response'[i].statusCode = 200) =>
            /\ LatestKey(data[i].machine_id) \in DOMAIN bucket'
            /\ bucket'[LatestKey(data[i].machine_id)] = JsonDumps(data[i])]_vars
  /\ [](\A i \in Slots :
          handler[i] = "POST" /\ obs[i].putFailed =>
            Done(i, "POST") /\ Status(i) = 500 /\ "error" \in DOMAIN Body(i))

IngestSuccessWitness ==
  \E i, j \in Slots :
    /\ Done(i, "POST") /\ obs[i].putFailed /\ Status(i) = 500
    /\ Done(j, "POST") /\ Status(j) = 200 /\ obs[j].puts = 2

\* C11: an ingest whose history put (data/<machine_id>/<timestamp>) failed
\* still goes on to the latest put: once it is done, either that put failed
\* too or it has written latest/<machine_id>.
HistoryFailureKeepsLatest ==
  \A i \in Slots :
    Done(i, "POST") /\ obs[i].appendFailed =>
      \/ obs[i].putFailed
      \/ /\ obs[i].puts >= 1
         /\ HasLatest(data[i].machine_id)

\* C12: no step overwrites, changes or removes an object under data/: every
\* history object of a state is there, unchanged, in the next state.
HistoryAppendOnly ==
  [][\A k \in DOMAIN bucket :
       k[1] = "data" => k \in DOMAIN bucket' /\ bucket'[k] = bucket[k]]_vars

\* C13: an ingest whose body has the wrong shape (an empty machine_id, a
\* temperature or vibration that is not a finite number, a missing field, no
\* JSON) writes nothing and ends with 400: an ingest that has put an object
\* carries a non-empty machine_id and finite readings, and so does one that
\* ended with another status than 400.
InvalidIngestRejected ==
  \A i \in Slots :
    LET ShapeOk == /\ frame[i].machine_id # EmptyMachine
                   /\ frame[i].temperature # NaN
                   /\ frame[i].vibration # NaN
    IN handler[i] = "POST" =>
         /\ obs[i].puts > 0 => ShapeOk
         /\ pc[i] = "done" /\ Status(i) # 400 => ShapeOk

\* C14: each of the three predict functions answers FAULT_SOON exactly when
\* temperature >= 82.0 or vibration >= 3.0, WARNING exactly when it does not
\* and temperature >= 74.0 or vibration >= 2.3, NORMAL otherwise, and never
\* anything else; applied to the same reading the three agree.
ScorerLadder ==
  /\ \A i \in Slots :
       pc[i] = "done" =>
         LET t == frame[i].temperature
             v == frame[i].vibration
             c == frame[i].prediction
             fault == t >= 8200 \/ v >= 300
             warn == t >= 7400 \/ v >= 230
         IN /\ c \in {"NORMAL", "WARNING", "FAULT_SOON"}
            /\ c = "FAULT_SOON" <=> fault
            /\ c = "WARNING" <=> (~fault /\ warn)
            /\ c = "NORMAL" <=> (~fault /\ ~warn)
  /\ \A i, j \in Slots :
       pc[i] = "done" /\ pc[j] = "done" => frame[i].prediction = frame[j].prediction

ScorerLadderWitness ==
  \E i, j \in Slots :
    /\ pc[i] = "done" /\ handler[i] = "predict_store"
    /\ pc[j] = "done" /\ handler[j] = "simulation"
    /\ frame[i].temperature = 7400 /\ frame[i].vibration = 229
    /\ frame[i].prediction = "WARNING"

\* C15: the confidence predict returns is within [0.85, 1] for FAULT_SOON,
\* [0.45, 1] for WARNING and [0, 0.30] for NORMAL, and so is the value
\* rounded to two decimals that the handlers store and return.
ConfidenceBounds ==
  \A i \in Slots :
    pc[i] = "done" =>
      LET c == frame[i].confidence
          r == data[i].confidence
          lo == IF frame[i].prediction = "FAULT_SOON" THEN 85
                ELSE IF frame[i].prediction = "WARNING" THEN 45 ELSE 0
          hi == IF frame[i].prediction = "NORMAL" THEN 30 ELSE 100
      IN /\ 100 * lo <= c /\ c <= 100 * hi
         /\ lo <= r /\ r <= hi

\* a NORMAL reading whose sigmoid is above 0.30 and a FAULT_SOON reading
\* whose sigmoid is below 0.85, both brought to the bound of their tier
ConfidenceBoundsWitness ==
  \E i \in Slots :
    /\ pc[i] = "done" /\ handler[i] = "predict_store"
    /\ \/ /\ frame[i].prediction = "NORMAL"
          /\ sigmoid(ZScore(frame[i].temperature, frame[i].vibration)) > 3000
          /\ data[i].confidence = 30
       \/ /\ frame[i].prediction = "FAULT_SOON"
          /\ sigmoid(ZScore(frame[i].temperature, frame[i].vibration)) < 8500
          /\ data[i].confidence = 85

\* C16: the body of a query answered 200 carries alert_sent, and alert_sent is
\* true exactly when the request called sns.publish and the call returned.
AlertSentIndicator ==
  \A i \in Slots :
    Done(i, "GET") /\ Status(i) = 200 =>
      /\ "alert_sent" \in DOMAIN Body(i)
      /\ Body(i).alert_sent = (obs[i].publishes = 1 /\ ~obs[i].publishFailed)

\* C17: once a query has delivered an alert for a machine, the latest record
\* of the machine carries last_alert_sent_at, a time the clock has reached,
\* whatever ingests committed since.
AlertStampSurvives ==
  \A i \in Slots :
    Done(i, "GET") /\ obs[i].publishes = 1 /\ ~obs[i].publishFailed =>
      /\ HasLatest(frame[i].machine_id)
      /\ "last_alert_sent_at" \in DOMAIN Latest(frame[i].machine_id)
      /\ Latest(frame[i].machine_id).last_alert_sent_at \in 0..clock

\* C20: the step in which a query answers 404 "No data found" starts from a
\* bucket without latest/<machine_id>: with the object there the query
\* answers anything but "No data found".
NoDataOnlyIfNeverIngested ==
  [][\A i \in Slots :
       (pc[i] = "idle" /\ handler'[i] = "GET" /\ pc'[i] = "done"
          /\ response'[i].statusCode = 404
          /\ response'[i].body.error = "No data found for machine")
         => ~HasLatest(frame'[i].machine_id)]_vars

\* C18: the step in which an ingest answers 200 leaves latest/<machine_id>
\* with the ingested temperature, vibration and timestamp, prediction PENDING
\* and no confidence; the step in which a query's write-back put succeeds
\* leaves it with prediction NORMAL, WARNING or FAULT_SOON and a confidence;
\* no step removes a latest object.
StateMachine ==
  /\ [][\A i \in Slots :
          (handler[i] = "POST" /\ pc[i] # "done" /\ pc'[i] = "done"
             /\ response'[i].statusCode = 200) =>
            /\ LatestKey(frame[i].machine_id) \in DOMAIN bucket'
            /\ LET r == JsonLoads(bucket'[LatestKey(frame[i].machine_id)])
               IN /\ r.temperature = frame[i].temperature
                  /\ r.vibration = frame[i].vibration
                  /\ r.timestamp = response'[i].body.timestamp
                  /\ r.prediction = "PENDING"
                  /\ "confidence" \notin DOMAIN r]_vars
  /\ [][\A i \in Slots :
          (pc[i] = "get_update" /\ obs'[i].puts = 1) =>
            /\ LatestKey(frame[i].machine_id) \in DOMAIN bucket'
            /\ LET r == JsonLoads(bucket'[LatestKey(frame[i].machine_id)])
               IN /\ r.prediction \in {"NORMAL", "WARNING", "FAULT_SOON"}
                  /\ "confidence" \in DOMAIN r]_vars
  /\ [][\A m \in Machines : HasLatest(m) => LatestKey(m) \in DOMAIN bucket']_vars

\* an ingest committed over a record that a query had resolved
StateMachineWitness ==
  \E i, j \in Slots :
    /\ Done(i, "POST") /\ Status(i) = 200
    /\ Done(j, "GET") /\ obs[j].puts = 1 /\ obs[j].overtaken = NoReading
    /\ frame[i].machine_id = frame[j].machine_id
    /\ Latest(frame[i].machine_id).prediction = "PENDING"
    /\ "confidence" \notin DOMAIN Latest(frame[i].machine_id)

\* C19: a step of a query for machine M leaves every object but
\* latest/M as it is (history objects and the latest objects of the other
\* machines), changes in latest/M at most prediction and confidence, and
\* writes there the machine_id, temperature, vibration and timestamp it read.
QueryFrame ==
  [][\A i \in Slots :
       (handler'[i] = "GET" /\ pc'[i] # pc[i]) =>
         LET M == frame'[i].machine_id
         IN /\ \A k \in DOMAIN bucket \cup DOMAIN bucket' :
                 k # LatestKey(M) =>
                   k \in DOMAIN bucket /\ k \in DOMAIN bucket' /\ bucket'[k] = bucket[k]
            /\ HasLatest(M) =>
                 /\ LatestKey(M) \in DOMAIN bucket'
                 /\ ReadingOf(JsonLoads(bucket'[LatestKey(M)])) = ReadingOf(Latest(M))
            /\ (pc[i] = "get_update" /\ bucket' # bucket) =>
                 ReadingOf(JsonLoads(bucket'[LatestKey(M)])) = ReadingOf(data[i])]_vars

====
